---- MODULE Spec2Model ----
(***************************************************************************)
(* MotionLab: the scoped animation context (useGsapContext), the motion    *)
(* configuration table with its lookups, the config accessor               *)
(* (useMotionConfig) and the effect composables (useMagneticEffect,        *)
(* useScrollReveal, useHeroAnimation).                                     *)
(*                                                                         *)
(* Time values are integers in milliseconds (the source writes seconds:    *)
(* 0.2 s is 200), so that a division by 10 stays exact.  The magnetic      *)
(* strength is an integer number of tenths (0.3 is 3) and the offsets it   *)
(* yields are tenths of a pixel (30 px is 300).                            *)
(***************************************************************************)
EXTENDS FiniteSets, Integers, Sequences, TLC

(* ---------------------------------------------------------------------- *)
(* Bounds                                                                  *)
(* ---------------------------------------------------------------------- *)

\* number of add() callbacks a caller may hand to one context
MaxAnims == 1

\* number of useMotionConfig() calls (each builds its own accessor)
MaxAccessors == 2

\* number of animation frames one magnetic effect requests
MaxFrames == 3

\* number of entries of the component registry
MaxEntries == 2

\* number of elements in the array handed to the scroll reveal
MaxTargets == 3

\* number of times the page is scrolled past the reveal's trigger
MaxEnters == 2

\* the scoped contexts of a page (two composables, as on the landing page)
Contexts == {"ctxA", "ctxB"}

Accessors == 1..MaxAccessors

(* ---------------------------------------------------------------------- *)
(* Scoped animation context: values                                        *)
(* ---------------------------------------------------------------------- *)

NULL == "null"
CONTEXT == "context"

\* the tween the setup callback creates while gsap.context() records
SetupTween == 0
\* the callbacks handed to add(): each one creates the tween of its number
AddIds == 1..MaxAnims
\* a tween created later by a DOM listener: gsap.context() no longer records
HoverTween == -1

\* what the caller passed as setup: nothing, a callback creating a tween
\* (README "Cleanup and Memory Leaks"), or the hover pattern registering
\* two DOM listeners (useHoverScale)
SetupKinds == {"none", "tween", "hover"}

HoverEvents == {"mouseenter", "mouseleave"}

VARIABLES
    options,         \* c -> [onRevert : BOOLEAN, setup : SetupKinds]
    phase,           \* c -> lifecycle of the owning component
    ctx,             \* c -> NULL or CONTEXT              (let ctx)
    isReady,         \* c -> BOOLEAN                      (const isReady)
    data,            \* c -> tweens recorded by the gsap context
    globalTimeline,  \* live tweens, as <<context, tween>>
    listeners,       \* c -> DOM listeners attached to the target
    isHovered,       \* c -> BOOLEAN (hover pattern)
    engineReverts,   \* c -> number of ctx.revert() calls made
    onRevertCalls,   \* c -> number of options.onRevert() calls made
    executed,        \* c -> add() callbacks that were executed
    dropped,         \* c -> add() callbacks dropped with a console.warn
    lastCall,        \* c -> last function of the handle that ran, and
                     \*      for revert() and add() the branch it took
    motionConfig,    \* the exported configuration object
    isClient,        \* import.meta.client
    mediaQuery,      \* matches of (prefers-reduced-motion: reduce)
    created,         \* i -> accessor i was built by useMotionConfig()
    prefersReducedMotion, \* i -> the accessor's flag
    listening,       \* i -> the accessor listens to mediaQuery changes
    lastAdjusted,    \* the last getAdjustedDuration() call and its result
    lastLookup       \* the last getDuration/getEasing/getDelay call

VARIABLES
    target,          \* target.value of the magnetic effect: element or NULL
    strength,        \* const strength (tenths)
    rect,            \* element.getBoundingClientRect()
    magPhase,        \* lifecycle of the component owning the effect
    magListeners,    \* listeners enable() attached to the element
    isActive,        \* isActive.value
    animationFrame,  \* let animationFrame: 0 for null, else a request id
    nextFrame,       \* the id the next requestAnimationFrame returns
    pendingFrames,   \* callbacks requested and neither run nor cancelled
    tween,           \* the last gsap.to / gsap.set on the element
    lastEvent,       \* the last pointer event delivered to the element
    callbackLog,     \* the last two calls of options.onEnter / onLeave
    strengthRef      \* the value of the returned strength ref (tenths)

magVars == <<target, strength, rect, magPhase, magListeners, isActive,
             animationFrame, nextFrame, pendingFrames, tween, lastEvent,
             callbackLog, strengthRef>>

VARIABLES
    targets,         \* targets.value of the scroll reveal
    stagger,         \* options.stagger: given or not, and its value
    scrollTriggerConfig, \* keys of options.scrollTrigger the caller set
    revPhase,        \* lifecycle of the component owning the reveal
    scrollTrigger,   \* the ScrollTrigger the reveal registered
    revealTween,     \* the tween the reveal registered
    isTriggered,     \* isTriggered.value
    scrollPos,       \* the page relative to the trigger's start
    enters           \* times the trigger's start was crossed forward

revVars == <<targets, stagger, scrollTriggerConfig, revPhase, scrollTrigger,
             revealTween, isTriggered, scrollPos, enters>>

VARIABLES
    title,           \* title.value of the hero animation
    subtitle,        \* subtitle.value
    button,          \* button.value
    delay,           \* options.delay (default 0.3)
    heroPhase,       \* lifecycle of the component owning the hero
    tl,              \* the timeline the hero built
    tlTime,          \* the timeline's playhead
    isPlaying,       \* isPlaying.value
    isComplete       \* isComplete.value

heroVars == <<title, subtitle, button, delay, heroPhase, tl, tlTime,
              isPlaying, isComplete>>

fxVars == <<magVars, revVars, heroVars>>

VARIABLES
    registry,        \* COMPONENT_REGISTRY
    lastQuery        \* the last registry query made, and what it returned

regVars == <<registry, lastQuery>>

VARIABLES
    pluginStarted,   \* the GSAP plugin of the application has run
    timeScale,       \* gsap.globalTimeline.timeScale()
    scrollTriggerEnabled \* ScrollTrigger is enabled

plugVars == <<pluginStarted, timeScale, scrollTriggerEnabled>>

VARIABLES
    pagePhase,       \* lifecycle of the landing page component
    tickPending,     \* the nextTick callback of the page is queued
    bound            \* effect -> its context's hooks are bound to the page

pageVars == <<pagePhase, tickPending, bound>>

\* the application around the composables
appVars == <<regVars, plugVars, pageVars>>

ctxVars == <<options, phase, ctx, isReady, data, globalTimeline, listeners,
             isHovered, engineReverts, onRevertCalls, executed, dropped,
             lastCall>>

cfgVars == <<motionConfig, isClient, mediaQuery, created,
             prefersReducedMotion, listening, lastAdjusted, lastLookup>>

vars == <<ctxVars, cfgVars, fxVars, appVars>>

\* the state of all scoped contexts as one value
S ==
    [phase |-> phase, ctx |-> ctx, isReady |-> isReady, data |-> data,
     globalTimeline |-> globalTimeline, listeners |-> listeners,
     isHovered |-> isHovered, engineReverts |-> engineReverts,
     onRevertCalls |-> onRevertCalls, executed |-> executed,
     dropped |-> dropped, lastCall |-> lastCall]

Assign(t) ==
    /\ phase' = t.phase
    /\ ctx' = t.ctx
    /\ isReady' = t.isReady
    /\ data' = t.data
    /\ globalTimeline' = t.globalTimeline
    /\ listeners' = t.listeners
    /\ isHovered' = t.isHovered
    /\ engineReverts' = t.engineReverts
    /\ onRevertCalls' = t.onRevertCalls
    /\ executed' = t.executed
    /\ dropped' = t.dropped
    /\ lastCall' = t.lastCall

(* ---------------------------------------------------------------------- *)
(* The animation engine, as the context wrapper uses it                    *)
(* ---------------------------------------------------------------------- *)

\* gsap.context(func, scope): runs func at once and records every tween
\* created while it runs.  func is the wrapper "() => { if (setup)
\* setup(gsap) }", which returns nothing: whatever setup returns is dropped.
gsapContext(s, c) ==
    LET kind == options[c].setup
        made == IF kind = "tween" THEN {SetupTween} ELSE {}
    IN [s EXCEPT
          !.data[c] = made,
          !.globalTimeline = @ \cup {<<c, a>> : a \in made},
          !.listeners[c] = IF kind = "hover" THEN @ \cup HoverEvents ELSE @]

\* variant: the revert clears the whole global timeline
ctxRevertClearsTimeline(s, c) ==
    [s EXCEPT
       !.globalTimeline = {},
       !.data[c] = {},
       !.engineReverts[c] = @ + 1]

\* ctx.revert(): kills and reverts the tweens the context recorded, and
\* empties the record.  DOM listeners are not the engine's to remove.
ctxRevert(s, c) ==
    [s EXCEPT
       !.globalTimeline = @ \ {<<c, a>> : a \in s.data[c]},
       !.data[c] = {},
       !.engineReverts[c] = @ + 1]

\* ctx.add(func): runs func at once and records the tweens it creates
ctxAdd(s, c, a) ==
    [s EXCEPT
       !.data[c] = @ \cup {a},
       !.globalTimeline = @ \cup {<<c, a>>},
       !.executed[c] = @ \cup {a}]

(* ---------------------------------------------------------------------- *)
(* useGsapContext                                                          *)
(* ---------------------------------------------------------------------- *)

\* variant: init() leaves isReady alone
initWithoutReady(s, c) ==
    LET t == gsapContext(s, c)
    IN [t EXCEPT !.ctx[c] = CONTEXT,
                 !.lastCall[c] = "init"]

\* variant: init() runs the add() callbacks that came too early
initReplaysDropped(s, c) ==
    LET t == gsapContext(s, c)
    IN [t EXCEPT !.ctx[c] = CONTEXT,
                 !.isReady[c] = TRUE,
                 !.data[c] = @ \cup s.dropped[c],
                 !.globalTimeline = @ \cup {<<c, a>> : a \in s.dropped[c]},
                 !.executed[c] = @ \cup s.dropped[c],
                 !.lastCall[c] = "init"]

init(s, c) ==
    LET t == gsapContext(s, c)
    IN [t EXCEPT !.ctx[c] = CONTEXT,
                 !.isReady[c] = TRUE,
                 !.lastCall[c] = "init"]

\* variant: revert() without the "if (ctx)" guard
revertUnguarded(s, c) ==
    LET t == ctxRevert(s, c)
    IN [t EXCEPT
          !.ctx[c] = NULL,
          !.isReady[c] = FALSE,
          !.onRevertCalls[c] = IF options[c].onRevert THEN @ + 1 ELSE @,
          !.lastCall[c] = "revert:cleaned"]

\* variant: revert() that forgets "ctx = null"
revertKeepsCtx(s, c) ==
    IF s.ctx[c] # NULL
    THEN LET t == ctxRevert(s, c)
         IN [t EXCEPT
               !.isReady[c] = FALSE,
               !.onRevertCalls[c] =
                   IF options[c].onRevert THEN @ + 1 ELSE @,
               !.lastCall[c] = "revert:cleaned"]
    ELSE [s EXCEPT !.lastCall[c] = "revert:noop"]

revert(s, c) ==
    IF s.ctx[c] # NULL
    THEN LET t == ctxRevert(s, c)
         IN [t EXCEPT
               !.ctx[c] = NULL,
               !.isReady[c] = FALSE,
               !.onRevertCalls[c] =
                   IF options[c].onRevert THEN @ + 1 ELSE @,
               !.lastCall[c] = "revert:cleaned"]
    ELSE [s EXCEPT !.lastCall[c] = "revert:noop"]

\* variant: add() without the "if (ctx)" guard runs the callback anyway
addUnguarded(s, c, a) ==
    LET t == ctxAdd(s, c, a)
    IN [t EXCEPT !.lastCall[c] = "add:registered"]

add(s, c, a) ==
    IF s.ctx[c] # NULL
    THEN LET t == ctxAdd(s, c, a)
         IN [t EXCEPT !.lastCall[c] = "add:registered"]
    ELSE [s EXCEPT !.dropped[c] = @ \cup {a},
                   !.lastCall[c] = "add:warned"]

\* onMounted(() => { init() })
onMounted(s, c) ==
    init([s EXCEPT !.phase[c] = "mounted"], c)

\* variant: no cleanup hook
onBeforeUnmountWithoutRevert(s, c) ==
    [s EXCEPT !.phase[c] = "unmounted"]

\* onBeforeUnmount(() => { revert() })
onBeforeUnmount(s, c) ==
    revert([s EXCEPT !.phase[c] = "unmounted"], c)

(* ---------------------------------------------------------------------- *)
(* Actions on the scoped contexts                                          *)
(* ---------------------------------------------------------------------- *)

\* an add() callback is handed over once
Fresh(s, c, a) == a \notin s.executed[c] \cup s.dropped[c]

\* the component owning context c is mounted
Mount(c) ==
    /\ phase[c] = "setup"
    /\ Assign(onMounted(S, c))
    /\ UNCHANGED <<options, cfgVars, fxVars, appVars>>

\* the component owning context c is unmounted
Unmount(c) ==
    /\ phase[c] = "mounted"
    /\ Assign(onBeforeUnmount(S, c))
    /\ UNCHANGED <<options, cfgVars, fxVars, appVars>>

\* the caller calls the revert() of the returned handle
ManualRevert(c) ==
    /\ Assign(revert(S, c))
    /\ UNCHANGED <<options, cfgVars, fxVars, appVars>>

\* the caller calls the add() of the returned handle
Add(c, a) ==
    /\ Fresh(S, c, a)
    /\ Assign(add(S, c, a))
    /\ UNCHANGED <<options, cfgVars, fxVars, appVars>>

\* a pointer event reaches a listener the setup callback attached: the
\* handler flips isHovered and starts a tween outside any recording
PointerEvent(c, ev) ==
    /\ phase[c] = "mounted"
    /\ ev \in listeners[c]
    /\ isHovered' = [isHovered EXCEPT ![c] = (ev = "mouseenter")]
    /\ globalTimeline' = globalTimeline \cup {<<c, HoverTween>>}
    /\ UNCHANGED <<options, phase, ctx, isReady, data, listeners,
                   engineReverts, onRevertCalls, executed, dropped,
                   lastCall, cfgVars, fxVars, appVars>>

(* ---------------------------------------------------------------------- *)
(* Motion configuration table and its lookups                              *)
(* ---------------------------------------------------------------------- *)

\* a JavaScript value returned by a lookup
Num(n) == [kind |-> "number", num |-> n, str |-> ""]
Str(t) == [kind |-> "string", num |-> 0, str |-> t]
Undefined == [kind |-> "undefined", num |-> 0, str |-> ""]
Inherited == [kind |-> "function", num |-> 0, str |-> ""]

\* the literal of "export const motionConfig" (durations, easings, delays)
MotionConfigLiteral ==
    [durations |->
        [instant |-> 0, fast |-> 200, normal |-> 400, slow |-> 600,
         verySlow |-> 1000],
     easings |->
        [linear |-> "none", smooth |-> "power2.out",
         smoothIn |-> "power2.in", smoothInOut |-> "power2.inOut",
         elastic |-> "elastic.out(1, 0.3)", bounce |-> "bounce.out",
         expo |-> "expo.out", back |-> "back.out(1.7)"],
     delays |->
        [none |-> 0, micro |-> 50, tiny |-> 100, small |-> 150,
         medium |-> 200, large |-> 300]]

DurationKeys == DOMAIN MotionConfigLiteral.durations
EasingKeys == DOMAIN MotionConfigLiteral.easings
DelayKeys == DOMAIN MotionConfigLiteral.delays

\* names every object inherits from Object.prototype
PrototypeKeys == {"toString"}

\* keys a caller may pass at run time (the key type is erased)
Keys == DurationKeys \cup EasingKeys \cup DelayKeys \cup PrototypeKeys
            \cup {"turbo"}

\* table[key] of JavaScript when key is no own property of the table: an
\* inherited member, or undefined
Missing(key) ==
    IF key \in PrototypeKeys THEN Inherited ELSE Undefined

getDuration(key) ==
    IF key \in DOMAIN motionConfig.durations
    THEN Num(motionConfig.durations[key])
    ELSE Missing(key)

getEasing(key) ==
    IF key \in DOMAIN motionConfig.easings
    THEN Str(motionConfig.easings[key])
    ELSE Missing(key)

\* variant: getDelay reads the durations
getDelayFromDurations(key) ==
    IF key \in DOMAIN motionConfig.durations
    THEN Num(motionConfig.durations[key])
    ELSE Missing(key)

getDelay(key) ==
    IF key \in DOMAIN motionConfig.delays
    THEN Num(motionConfig.delays[key])
    ELSE Missing(key)

Lookups == {"getDuration", "getEasing", "getDelay"}

Lookup(fn, key) ==
    CASE fn = "getDuration" -> getDuration(key)
      [] fn = "getEasing" -> getEasing(key)
      [] fn = "getDelay" -> getDelay(key)

(* ---------------------------------------------------------------------- *)
(* useMotionConfig                                                         *)
(* ---------------------------------------------------------------------- *)

\* variant: the flag is not consulted
getAdjustedDurationIgnoresFlag(flag, key) == getDuration(key).num

getAdjustedDuration(flag, key) ==
    IF flag THEN getDuration(key).num \div 10 ELSE getDuration(key).num

NoCall == [made |-> FALSE]

\* variant: the accessor reads the media query once and never listens
UseMotionConfigWithoutListener(i) ==
    /\ ~created[i]
    /\ created' = [created EXCEPT ![i] = TRUE]
    /\ prefersReducedMotion' =
          [prefersReducedMotion EXCEPT
              ![i] = IF isClient THEN mediaQuery ELSE FALSE]
    /\ UNCHANGED <<motionConfig, isClient, mediaQuery, listening,
                   lastAdjusted, lastLookup, ctxVars, fxVars,
                   appVars>>

\* useMotionConfig() builds accessor i: its flag starts false, and on the
\* client takes the media query's value and follows its changes
UseMotionConfig(i) ==
    /\ ~created[i]
    /\ created' = [created EXCEPT ![i] = TRUE]
    /\ prefersReducedMotion' =
          [prefersReducedMotion EXCEPT
              ![i] = IF isClient THEN mediaQuery ELSE FALSE]
    /\ listening' = [listening EXCEPT ![i] = isClient]
    /\ UNCHANGED <<motionConfig, isClient, mediaQuery, lastAdjusted,
                   lastLookup, ctxVars, fxVars, appVars>>

\* the platform preference changes: every "change" listener runs
MediaQueryChange ==
    /\ isClient
    /\ mediaQuery' = ~mediaQuery
    /\ prefersReducedMotion' =
          [i \in Accessors |->
              IF listening[i] THEN ~mediaQuery ELSE prefersReducedMotion[i]]
    /\ UNCHANGED <<motionConfig, isClient, created, listening, lastAdjusted,
                   lastLookup, ctxVars, fxVars, appVars>>

\* a caller calls the getAdjustedDuration of accessor i
CallGetAdjustedDuration(i, key) ==
    /\ created[i]
    /\ lastAdjusted' =
          [made |-> TRUE, accessor |-> i, key |-> key,
           flag |-> prefersReducedMotion[i],
           result |-> getAdjustedDuration(prefersReducedMotion[i], key)]
    /\ UNCHANGED <<motionConfig, isClient, mediaQuery, created,
                   prefersReducedMotion, listening, lastLookup, ctxVars,
                   fxVars, appVars>>

\* a caller calls getDuration, getEasing or getDelay
CallLookup(fn, key) ==
    /\ lastLookup' =
          [made |-> TRUE, fn |-> fn, key |-> key, threw |-> FALSE,
           result |-> Lookup(fn, key)]
    /\ UNCHANGED <<motionConfig, isClient, mediaQuery, created,
                   prefersReducedMotion, listening, lastAdjusted, ctxVars,
                   fxVars, appVars>>

(* ---------------------------------------------------------------------- *)
(* useMagneticEffect                                                       *)
(* ---------------------------------------------------------------------- *)

ELEMENT == "element"

\* radius = 100 (the default; pixels)
radius == 100

\* strength = 0.3 (the default), or 0 passed by the caller
Strengths == {0, 3}

\* bounding rectangles of the element: centred on (0,0) and on (20,10)
Rects ==
    {[left |-> -50, top |-> -20, width |-> 100, height |-> 40],
     [left |-> 0, top |-> 0, width |-> 40, height |-> 20]}

\* clientX, clientY of the pointer events
Pointers == {<<100, 0>>, <<60, 80>>, <<130, 10>>, <<20, 10>>}

NoEvent == [type |-> "none", x |-> 0, y |-> 0]
MouseLeaveEvent == [type |-> "mouseleave", x |-> 0, y |-> 0]
MouseMoveEvent(p) == [type |-> "mousemove", x |-> p[1], y |-> p[2]]

NoTween == [x |-> 0, y |-> 0, duration |-> 0, by |-> "none", e |-> NoEvent]

\* speed = motionConfig.durations.normal (the default)
speed == motionConfig.durations.normal

\* the state of the effect as one value
M ==
    [magPhase |-> magPhase, magListeners |-> magListeners,
     isActive |-> isActive, animationFrame |-> animationFrame,
     nextFrame |-> nextFrame, pendingFrames |-> pendingFrames,
     tween |-> tween, callbackLog |-> callbackLog]

MagAssign(t) ==
    /\ magPhase' = t.magPhase
    /\ magListeners' = t.magListeners
    /\ isActive' = t.isActive
    /\ animationFrame' = t.animationFrame
    /\ nextFrame' = t.nextFrame
    /\ pendingFrames' = t.pendingFrames
    /\ tween' = t.tween
    /\ callbackLog' = t.callbackLog

\* variant: the offset is taken from the viewport's corner, not the centre
calculateOffsetFromCorner(r, mouseX, mouseY) ==
    [x |-> mouseX * strength,
     y |-> mouseY * strength,
     distance2 |-> mouseX * mouseX + mouseY * mouseY]

\* distance2 is the square of the source's distance
calculateOffset(r, mouseX, mouseY) ==
    LET centerX == r.left + r.width \div 2
        centerY == r.top + r.height \div 2
        deltaX == mouseX - centerX
        deltaY == mouseY - centerY
    IN [x |-> deltaX * strength,
        y |-> deltaY * strength,
        distance2 |-> deltaX * deltaX + deltaY * deltaY]

\* distance > radius, on the squares
TooFar(o) == o.distance2 > radius * radius

\* gsap.to(element, { x, y, duration: speed, ease }) while handling e
gsapTo(m, x, y, by, e) ==
    [m EXCEPT !.tween =
        [x |-> x, y |-> y, duration |-> speed, by |-> by, e |-> e]]

\* options.onEnter?.() / options.onLeave?.(): the call is logged
Called(log, callback) ==
    IF Len(log) < 2 THEN Append(log, callback) ELSE <<log[2], callback>>

\* e is the event being handled
handleMouseLeave(m, e) ==
    IF target = NULL
    THEN m
    ELSE gsapTo([m EXCEPT !.isActive = FALSE,
                          !.callbackLog = Called(@, "onLeave")],
                0, 0, "leave", e)

\* cancelAnimationFrame(id)
cancelAnimationFrame(frames, id) == {f \in frames : f.id # id}

\* variant: a new frame is requested without cancelling the pending one
handleMouseMoveWithoutCancel(m, e) ==
    IF target = NULL
    THEN m
    ELSE LET o == calculateOffset(rect, e.x, e.y)
         IN IF TooFar(o)
            THEN handleMouseLeave(m, e)
            ELSE [m EXCEPT
                    !.isActive = TRUE,
                    !.callbackLog =
                        IF m.isActive THEN @ ELSE Called(@, "onEnter"),
                    !.pendingFrames = @ \cup
                        {[id |-> m.nextFrame, x |-> o.x, y |-> o.y,
                          e |-> e]},
                    !.animationFrame = m.nextFrame,
                    !.nextFrame = @ + 1]

\* variant: a strength of 0 makes the handler return at once
handleMouseMoveInert(m, e) ==
    IF target = NULL \/ strength = 0
    THEN m
    ELSE LET o == calculateOffset(rect, e.x, e.y)
         IN IF TooFar(o)
            THEN handleMouseLeave(m, e)
            ELSE [m EXCEPT
                    !.isActive = TRUE,
                    !.callbackLog =
                        IF m.isActive THEN @ ELSE Called(@, "onEnter"),
                    !.pendingFrames =
                        (IF m.animationFrame # 0
                         THEN cancelAnimationFrame(@, m.animationFrame)
                         ELSE @) \cup
                        {[id |-> m.nextFrame, x |-> o.x, y |-> o.y,
                          e |-> e]},
                    !.animationFrame = m.nextFrame,
                    !.nextFrame = @ + 1]

handleMouseMove(m, e) ==
    IF target = NULL
    THEN m
    ELSE LET o == calculateOffset(rect, e.x, e.y)
         IN IF TooFar(o)
            THEN handleMouseLeave(m, e)
            ELSE [m EXCEPT
                    !.isActive = TRUE,
                    !.callbackLog =
                        IF m.isActive THEN @ ELSE Called(@, "onEnter"),
                    !.pendingFrames =
                        (IF m.animationFrame # 0
                         THEN cancelAnimationFrame(@, m.animationFrame)
                         ELSE @) \cup
                        {[id |-> m.nextFrame, x |-> o.x, y |-> o.y,
                          e |-> e]},
                    !.animationFrame = m.nextFrame,
                    !.nextFrame = @ + 1]

\* the callback handed to requestAnimationFrame
frameCallback(m, f) ==
    gsapTo([m EXCEPT !.pendingFrames = @ \ {f}], f.x, f.y, "frame", f.e)

enable(m) ==
    IF target = NULL
    THEN m
    ELSE [m EXCEPT !.magListeners = @ \cup {"mousemove", "mouseleave"}]

disable(m) ==
    IF target = NULL
    THEN m
    ELSE [m EXCEPT
            !.magListeners = {},
            !.tween = [x |-> 0, y |-> 0, duration |-> 0, by |-> "set",
                       e |-> NoEvent],
            !.isActive = FALSE,
            !.pendingFrames =
                IF m.animationFrame # 0
                THEN cancelAnimationFrame(@, m.animationFrame)
                ELSE @,
            !.animationFrame = 0]

\* onMounted(() => { enable() })
MagMount ==
    /\ magPhase = "setup"
    /\ MagAssign(enable([M EXCEPT !.magPhase = "mounted"]))
    /\ UNCHANGED <<target, strength, strengthRef, rect, lastEvent, ctxVars, cfgVars, appVars,
                   revVars, heroVars>>

\* onBeforeUnmount(() => { disable() })
MagUnmount ==
    /\ magPhase = "mounted"
    /\ MagAssign(disable([M EXCEPT !.magPhase = "unmounted"]))
    /\ UNCHANGED <<target, strength, strengthRef, rect, lastEvent, ctxVars, cfgVars, appVars,
                   revVars, heroVars>>

\* a mousemove reaches the element's listener
MouseMove(p) ==
    /\ "mousemove" \in magListeners
    /\ (nextFrame <= MaxFrames
           \/ TooFar(calculateOffset(rect, p[1], p[2])))
    /\ MagAssign(handleMouseMove(M, MouseMoveEvent(p)))
    /\ lastEvent' = MouseMoveEvent(p)
    /\ UNCHANGED <<target, strength, strengthRef, rect, ctxVars, cfgVars, appVars, revVars,
                   heroVars>>

\* a mouseleave reaches the element's listener
MouseLeave ==
    /\ "mouseleave" \in magListeners
    /\ MagAssign(handleMouseLeave(M, MouseLeaveEvent))
    /\ lastEvent' = MouseLeaveEvent
    /\ UNCHANGED <<target, strength, strengthRef, rect, ctxVars, cfgVars, appVars, revVars,
                   heroVars>>

\* the browser runs a requested animation frame callback
AnimationFrame(f) ==
    /\ f \in pendingFrames
    /\ MagAssign(frameCallback(M, f))
    /\ UNCHANGED <<target, strength, strengthRef, rect, lastEvent, ctxVars, cfgVars, appVars,
                   revVars, heroVars>>

\* the caller assigns the value of the returned strength ref
SetStrength(s) ==
    /\ strengthRef # s
    /\ strengthRef' = s
    /\ UNCHANGED <<target, strength, rect, magPhase, magListeners, isActive,
                   animationFrame, nextFrame, pendingFrames, tween,
                   lastEvent, callbackLog, ctxVars, cfgVars, appVars,
                   revVars, heroVars>>

(* ---------------------------------------------------------------------- *)
(* useScrollReveal                                                         *)
(* ---------------------------------------------------------------------- *)

\* targets.value: null, one element, or an array of n elements
TargetsValues ==
    {[kind |-> "null", n |-> 0], [kind |-> "single", n |-> 1]}
        \cup {[kind |-> "array", n |-> k] : k \in 0..MaxTargets}

\* stagger = 0.2 unless the caller gives one
StaggerOptions ==
    {[given |-> FALSE, value |-> 0], [given |-> TRUE, value |-> 100],
     [given |-> TRUE, value |-> 200]}

\* the keys of ScrollTrigger.Vars the reveal sets itself
TriggerKeys == {"trigger", "start", "onEnter"}

\* motionConfig.scrollTrigger
ScrollTriggerDefaults ==
    [start |-> "top 80%", end |-> "bottom 20%",
     toggleActions |-> "play none none reverse"]

\* what a caller's scrollTrigger option holds for each key it sets
CallerVars ==
    [trigger |-> "other element", start |-> "top 50%", onEnter |-> "caller"]

NoTrigger == [live |-> FALSE, trigger |-> "", start |-> "", onEnter |-> ""]

NoReveal ==
    [live |-> FALSE, n |-> 0, stagger |-> 0, duration |-> 0,
     starts |-> <<>>]

\* Array.isArray(targets.value) ? targets.value : [targets.value]: the
\* number of elements, a null counting as an entry that is no element
Elements(t) == IF t.kind = "array" THEN t.n ELSE 1

\* !elements.length || !elements[0]
NothingToAnimate(t) == Elements(t) = 0 \/ t.kind = "null"

\* { trigger, start, onEnter, ...scrollTriggerConfig }
TriggerVars(cfg) ==
    LET own == [trigger |-> "first element",
                start |-> IF "start" \in cfg THEN CallerVars.start
                          ELSE ScrollTriggerDefaults.start,
                onEnter |-> "isTriggered"]
    IN [k \in TriggerKeys |-> IF k \in cfg THEN CallerVars[k] ELSE own[k]]

\* variant: the reveal passes the default stagger whatever the caller gave
RevealStaggerDefault(st) == 200

\* const { stagger = 0.2 } = options
RevealStagger(st) == IF st.given THEN st.value ELSE 200

\* the state of the reveal as one value
R ==
    [revPhase |-> revPhase, scrollTrigger |-> scrollTrigger,
     revealTween |-> revealTween, isTriggered |-> isTriggered,
     scrollPos |-> scrollPos, enters |-> enters]

RevAssign(t) ==
    /\ revPhase' = t.revPhase
    /\ scrollTrigger' = t.scrollTrigger
    /\ revealTween' = t.revealTween
    /\ isTriggered' = t.isTriggered
    /\ scrollPos' = t.scrollPos
    /\ enters' = t.enters

\* the setup callback handed to useGsapContext
revealSetup(r) ==
    IF NothingToAnimate(targets)
    THEN r
    ELSE LET v == TriggerVars(scrollTriggerConfig)
         IN [r EXCEPT
               !.scrollTrigger =
                   [live |-> TRUE, trigger |-> v.trigger,
                    start |-> v.start, onEnter |-> v.onEnter],
               !.revealTween =
                   [live |-> TRUE, n |-> Elements(targets),
                    stagger |-> RevealStagger(stagger),
                    duration |-> motionConfig.durations.slow,
                    starts |-> <<>>]]

\* the engine starts a staggered tween: target i begins (i-1) staggers in
staggerStarts(tw) == [i \in 1..tw.n |-> (i - 1) * tw.stagger]

\* the page scrolls forward past the trigger's start: the engine calls
\* the trigger's onEnter and plays its tween
onEnterCrossing(r) ==
    IF ~r.scrollTrigger.live
    THEN r
    ELSE [r EXCEPT
            !.enters = @ + 1,
            !.isTriggered =
                IF r.scrollTrigger.onEnter = "isTriggered" THEN TRUE ELSE @,
            !.revealTween.starts =
                IF @ = <<>> THEN staggerStarts(r.revealTween) ELSE @]

\* the context's revert kills the trigger and the tween
revealRevert(r) ==
    [r EXCEPT !.scrollTrigger = NoTrigger, !.revealTween = NoReveal]

\* the owning component is mounted: the context runs the setup callback
RevMount ==
    /\ revPhase = "setup"
    /\ RevAssign(revealSetup([R EXCEPT !.revPhase = "mounted"]))
    /\ UNCHANGED <<targets, stagger, scrollTriggerConfig, ctxVars, cfgVars, appVars,
                   magVars, heroVars>>

\* the owning component is unmounted: the context is reverted
RevUnmount ==
    /\ revPhase = "mounted"
    /\ RevAssign(revealRevert([R EXCEPT !.revPhase = "unmounted"]))
    /\ UNCHANGED <<targets, stagger, scrollTriggerConfig, ctxVars, cfgVars, appVars,
                   magVars, heroVars>>

\* the user scrolls down past the start of the trigger
ScrollForward ==
    /\ revPhase = "mounted"
    /\ scrollPos = "before"
    /\ enters < MaxEnters
    /\ RevAssign(onEnterCrossing([R EXCEPT !.scrollPos = "past"]))
    /\ UNCHANGED <<targets, stagger, scrollTriggerConfig, ctxVars, cfgVars, appVars,
                   magVars, heroVars>>

\* the user scrolls back up above the start of the trigger
ScrollBack ==
    /\ revPhase = "mounted"
    /\ scrollPos = "past"
    /\ scrollPos' = "before"
    /\ UNCHANGED <<targets, stagger, scrollTriggerConfig, revPhase,
                   scrollTrigger, revealTween, isTriggered, enters,
                   ctxVars, cfgVars, appVars, magVars, heroVars>>

(* ---------------------------------------------------------------------- *)
(* useHeroAnimation                                                        *)
(* ---------------------------------------------------------------------- *)

\* delay = 0.3 unless the caller gives one
HeroDelays == {0, 300, 500}

NoTimeline == <<>>

\* the end of the sequence built so far
TimelineEnd(segs) ==
    LET ends == {segs[i].start + segs[i].duration : i \in DOMAIN segs}
    IN IF ends = {} THEN 0
       ELSE CHOOSE e \in ends : \A o \in ends : o <= e

\* tl.from(el, { duration, delay }, "-=overlap"): the tween is placed
\* overlap before the end of the sequence and starts after its own delay
tlFrom(segs, name, el, duration, dly, overlap) ==
    Append(segs,
           [name |-> name, target |-> el, duration |-> duration,
            start |-> TimelineEnd(segs) - overlap + dly])

\* variant: the segments are appended one after the other
heroTimelineSequential(d) ==
    LET t1 == tlFrom(<<>>, "title", title,
                     motionConfig.durations.verySlow, d, 0)
        t2 == tlFrom(t1, "subtitle", subtitle,
                     motionConfig.durations.slow, 0, 0)
    IN tlFrom(t2, "button", button, motionConfig.durations.normal, 0, 0)

\* the three from() calls of the setup callback
heroTimeline(d) ==
    LET t1 == tlFrom(<<>>, "title", title,
                     motionConfig.durations.verySlow, d, 0)
        t2 == tlFrom(t1, "subtitle", subtitle,
                     motionConfig.durations.slow, 0, 600)
    IN tlFrom(t2, "button", button, motionConfig.durations.normal, 0, 400)

\* the instants the playhead is observed at: 0, the start of each segment
\* and the end of the timeline
TimePoints(segs) ==
    {0, TimelineEnd(segs)} \cup {segs[i].start : i \in DOMAIN segs}

\* the owning component is mounted: the context runs the setup callback,
\* which builds the timeline whatever the three refs hold
HeroMount ==
    /\ heroPhase = "setup"
    /\ heroPhase' = "mounted"
    /\ tl' = heroTimeline(delay)
    /\ tlTime' = 0
    /\ UNCHANGED <<title, subtitle, button, delay, isPlaying, isComplete,
                   ctxVars, cfgVars, appVars, magVars, revVars>>

\* the engine advances the playhead to the next instant: onStart runs as
\* the playhead leaves 0 and onComplete as it reaches the end; a global
\* time scale of 0 stops every playhead
HeroTick ==
    /\ heroPhase = "mounted"
    /\ timeScale # 0
    /\ tl # NoTimeline
    /\ tlTime < TimelineEnd(tl)
    /\ LET later == {t \in TimePoints(tl) : t > tlTime}
           next == CHOOSE t \in later : \A o \in later : t <= o
       IN /\ tlTime' = next
          /\ isPlaying' = (next < TimelineEnd(tl))
          /\ isComplete' = (next = TimelineEnd(tl))
    /\ UNCHANGED <<title, subtitle, button, delay, heroPhase, tl,
                   ctxVars, cfgVars, appVars, magVars, revVars>>

\* the owning component is unmounted: the context's revert kills the
\* timeline
HeroUnmount ==
    /\ heroPhase = "mounted"
    /\ heroPhase' = "unmounted"
    /\ tl' = NoTimeline
    /\ tlTime' = 0
    /\ UNCHANGED <<title, subtitle, button, delay, isPlaying, isComplete,
                   ctxVars, cfgVars, appVars, magVars, revVars>>

(* ---------------------------------------------------------------------- *)
(* useComponentRegistry                                                    *)
(* ---------------------------------------------------------------------- *)

\* ComponentCategory, in the order getAllCategories lists its keys
CategoryIds ==
    <<"buttons", "cards", "sections", "forms", "text", "navigation",
      "overlays">>

\* Complexity
Complexities == {"beginner", "intermediate", "advanced"}

\* the text of a name, a description, a tag or a query is a sequence of
\* characters; the characters that differ only by case
UpperCase == {"A", "B"}

\* one character of String.prototype.toLowerCase
LowerChar(ch) ==
    CASE ch = "A" -> "a"
      [] ch = "B" -> "b"
      [] OTHER -> ch

\* String.prototype.toLowerCase
toLowerCase(str) == [i \in DOMAIN str |-> LowerChar(str[i])]

\* String.prototype.includes
includes(str, part) ==
    \E i \in 0..(Len(str) - Len(part)) :
        SubSeq(str, i + 1, i + Len(part)) = part

\* the entries a registry is filled from (ComponentMeta; the loader and
\* the animation metadata play no part in the queries)
SampleEntries ==
    {[id |-> "ba", name |-> <<"B", "a">>, category |-> "buttons",
      description |-> <<"c", "c">>, tags |-> << <<"a", "b">> >>,
      complexity |-> "beginner"],
     [id |-> "c", name |-> <<"c">>, category |-> "cards",
      description |-> <<"A", "B", "c">>, tags |-> <<>>,
      complexity |-> "advanced"],
     [id |-> "ca", name |-> <<"c", "a">>, category |-> "buttons",
      description |-> <<"c">>, tags |-> << <<"b">>, <<"B", "A">> >>,
      complexity |-> "intermediate"],
     [id |-> "ba", name |-> <<"b", "b">>, category |-> "text",
      description |-> <<"a", "c">>, tags |-> << <<"c">> >>,
      complexity |-> "beginner"]}

\* the registries of up to MaxEntries entries
Registries ==
    UNION {[1..n -> SampleEntries] : n \in 0..MaxEntries}

\* the arguments the queries are called with
QueryIds == {"ba", "c", "ca", "none"}
QueryTags ==
    {<<>>, << <<"a", "b">> >>, << <<"c">>, <<"b">> >>, << <<"A", "B">> >>}
QueryTexts ==
    {<<>>, <<"a">>, <<"B">>, <<"a", "b">>, <<"A", "B">>, <<"b", "a">>,
     <<"c", "c", "c">>}

\* Array.prototype.some over the tags of an entry
HasTag(c, tag) == \E i \in DOMAIN c.tags : c.tags[i] = tag

getAllComponents == registry

getByCategory(category) ==
    SelectSeq(registry, LAMBDA c : c.category = category)

\* Array.prototype.find: the first entry with the id, or undefined
getById(id) ==
    LET hits == SelectSeq(registry, LAMBDA c : c.id = id)
    IN IF hits = <<>> THEN [found |-> FALSE]
       ELSE [found |-> TRUE, entry |-> Head(hits)]

\* variant: every given tag must be on the entry
getByTagsEvery(tags) ==
    SelectSeq(registry,
              LAMBDA c : \A i \in DOMAIN tags : HasTag(c, tags[i]))

getByTags(tags) ==
    SelectSeq(registry,
              LAMBDA c : \E i \in DOMAIN tags : HasTag(c, tags[i]))

getByComplexity(complexity) ==
    SelectSeq(registry, LAMBDA c : c.complexity = complexity)

\* variant: every record carries the size of the whole registry
getAllCategoriesTotal ==
    [i \in DOMAIN CategoryIds |->
        [id |-> CategoryIds[i], count |-> Len(registry)]]

\* Object.entries(categories).map(...): one record per key, with the
\* length of getByCategory(key)
getAllCategories ==
    [i \in DOMAIN CategoryIds |->
        [id |-> CategoryIds[i],
         count |-> Len(getByCategory(CategoryIds[i]))]]

\* variant: the query is compared as typed
searchCaseSensitive(query) ==
    SelectSeq(registry,
              LAMBDA c :
                  \/ includes(toLowerCase(c.name), query)
                  \/ includes(toLowerCase(c.description), query)
                  \/ \E i \in DOMAIN c.tags :
                        includes(toLowerCase(c.tags[i]), query))

search(query) ==
    LET lowerQuery == toLowerCase(query)
    IN SelectSeq(registry,
                 LAMBDA c :
                     \/ includes(toLowerCase(c.name), lowerQuery)
                     \/ includes(toLowerCase(c.description), lowerQuery)
                     \/ \E i \in DOMAIN c.tags :
                           includes(toLowerCase(c.tags[i]), lowerQuery))

NoQuery == [op |-> "none"]

\* a page calls one query of the registry
Query(op, arg, result) ==
    /\ lastQuery' = [op |-> op, arg |-> arg, result |-> result]
    /\ UNCHANGED <<registry, ctxVars, cfgVars, fxVars, plugVars, pageVars>>

CallGetAllComponents == Query("getAllComponents", <<>>, getAllComponents)

CallGetByCategory ==
    \E i \in DOMAIN CategoryIds :
        Query("getByCategory", CategoryIds[i], getByCategory(CategoryIds[i]))

CallGetById == \E id \in QueryIds : Query("getById", id, getById(id))

CallGetByTags ==
    \E tags \in QueryTags : Query("getByTags", tags, getByTags(tags))

CallGetByComplexity ==
    \E x \in Complexities :
        Query("getByComplexity", x, getByComplexity(x))

CallGetAllCategories == Query("getAllCategories", <<>>, getAllCategories)

CallSearch == \E q \in QueryTexts : Query("search", q, search(q))

(* ---------------------------------------------------------------------- *)
(* The GSAP plugin of the application                                      *)
(* ---------------------------------------------------------------------- *)

\* variant: the time scale is set but the scroll triggers stay enabled
PluginStartTimeScaleOnly ==
    /\ ~pluginStarted
    /\ isClient
    /\ pluginStarted' = TRUE
    /\ timeScale' = IF mediaQuery THEN 0 ELSE timeScale
    /\ UNCHANGED <<scrollTriggerEnabled, ctxVars, cfgVars, fxVars, regVars,
                   pageVars>>

\* defineNuxtPlugin(() => { ... }): the preference is read once
PluginStart ==
    /\ ~pluginStarted
    /\ isClient
    /\ pluginStarted' = TRUE
    /\ timeScale' = IF mediaQuery THEN 0 ELSE timeScale
    /\ scrollTriggerEnabled' =
          IF mediaQuery THEN FALSE ELSE scrollTriggerEnabled
    /\ UNCHANGED <<ctxVars, cfgVars, fxVars, regVars, pageVars>>

\* variant: the timeline is cleared and the scroll triggers are kept
NavigateClearOnly ==
    /\ pluginStarted
    /\ globalTimeline' = {}
    /\ tween' = NoTween
    /\ revealTween' = NoReveal
    /\ tl' = NoTimeline
    /\ tlTime' = 0
    /\ UNCHANGED <<options, phase, ctx, isReady, data, listeners, isHovered,
                   engineReverts, onRevertCalls, executed, dropped, lastCall,
                   target, strength, strengthRef, rect, magPhase,
                   magListeners, isActive, callbackLog,
                   animationFrame, nextFrame, pendingFrames, lastEvent,
                   targets, stagger, scrollTriggerConfig, revPhase,
                   scrollTrigger, isTriggered, scrollPos, enters, title,
                   subtitle, button, delay, heroPhase, isPlaying, isComplete,
                   cfgVars, appVars>>

\* router.beforeEach(() => { ... }): gsap.globalTimeline.clear() takes
\* every tween and timeline off the global timeline, and every scroll
\* trigger is killed
Navigate ==
    /\ pluginStarted
    /\ globalTimeline' = {}
    /\ tween' = NoTween
    /\ revealTween' = NoReveal
    /\ scrollTrigger' = NoTrigger
    /\ tl' = NoTimeline
    /\ tlTime' = 0
    /\ UNCHANGED <<options, phase, ctx, isReady, data, listeners, isHovered,
                   engineReverts, onRevertCalls, executed, dropped, lastCall,
                   target, strength, strengthRef, rect, magPhase,
                   magListeners, isActive, callbackLog,
                   animationFrame, nextFrame, pendingFrames, lastEvent,
                   targets, stagger, scrollTriggerConfig, revPhase,
                   isTriggered, scrollPos, enters, title, subtitle, button,
                   delay, heroPhase, isPlaying, isComplete, cfgVars, appVars>>

(* ---------------------------------------------------------------------- *)
(* The landing page                                                        *)
(* ---------------------------------------------------------------------- *)

\* onMounted(...) / onBeforeUnmount(...) of useGsapContext called by
\* effect e: the hooks are bound to the page only while its setup runs
BindHooks(b, e, duringSetup) == [b EXCEPT ![e] = duringSetup]

\* <script setup> runs: useHeroAnimation(...) is called, then the page
\* registers its own mounted hook
PageSetup ==
    /\ pagePhase = "created"
    /\ pagePhase' = "setup"
    /\ bound' = BindHooks(bound, "hero", TRUE)
    /\ UNCHANGED <<tickPending, ctxVars, cfgVars, fxVars, regVars, plugVars>>

\* the page is mounted: the bound mounted hooks run in the order they were
\* registered, the hero's init() first, then the page's hook, which queues
\* the nextTick callback
PageMounted ==
    /\ pagePhase = "setup"
    /\ pagePhase' = "mounted"
    /\ tickPending' = TRUE
    /\ IF bound["hero"]
       THEN /\ heroPhase' = "mounted"
            /\ tl' = heroTimeline(delay)
            /\ tlTime' = 0
       ELSE UNCHANGED <<heroPhase, tl, tlTime>>
    /\ UNCHANGED <<bound, title, subtitle, button, delay, isPlaying,
                   isComplete, ctxVars, cfgVars, magVars, revVars, regVars,
                   plugVars>>

\* the nextTick callback runs: useScrollReveal(...) is called outside the
\* page's setup
PageNextTick ==
    /\ tickPending
    /\ tickPending' = FALSE
    /\ bound' = BindHooks(bound, "reveal", FALSE)
    /\ UNCHANGED <<pagePhase, ctxVars, cfgVars, fxVars, regVars, plugVars>>

\* the page is unmounted: the bound beforeUnmount hooks run
PageUnmount ==
    /\ pagePhase = "mounted"
    /\ pagePhase' = "unmounted"
    /\ IF bound["hero"]
       THEN /\ heroPhase' = "unmounted"
            /\ tl' = NoTimeline
            /\ tlTime' = 0
       ELSE UNCHANGED <<heroPhase, tl, tlTime>>
    /\ IF bound["reveal"]
       THEN RevAssign(revealRevert([R EXCEPT !.revPhase = "unmounted"]))
       ELSE UNCHANGED <<revPhase, scrollTrigger, revealTween, isTriggered,
                        scrollPos, enters>>
    /\ UNCHANGED <<tickPending, bound, title, subtitle, button, delay,
                   isPlaying, isComplete, targets, stagger,
                   scrollTriggerConfig, ctxVars, cfgVars, magVars, regVars,
                   plugVars>>

(* ---------------------------------------------------------------------- *)
(* Specifications                                                          *)
(* ---------------------------------------------------------------------- *)

CtxInit ==
    /\ options \in [Contexts -> [onRevert : BOOLEAN, setup : SetupKinds]]
    /\ phase = [c \in Contexts |-> "setup"]
    /\ ctx = [c \in Contexts |-> NULL]
    /\ isReady = [c \in Contexts |-> FALSE]
    /\ data = [c \in Contexts |-> {}]
    /\ globalTimeline = {}
    /\ listeners = [c \in Contexts |-> {}]
    /\ isHovered = [c \in Contexts |-> FALSE]
    /\ engineReverts = [c \in Contexts |-> 0]
    /\ onRevertCalls = [c \in Contexts |-> 0]
    /\ executed = [c \in Contexts |-> {}]
    /\ dropped = [c \in Contexts |-> {}]
    /\ lastCall = [c \in Contexts |-> "none"]

CfgInit ==
    /\ motionConfig = MotionConfigLiteral
    /\ isClient \in BOOLEAN
    /\ mediaQuery \in BOOLEAN
    /\ created = [i \in Accessors |-> FALSE]
    /\ prefersReducedMotion = [i \in Accessors |-> FALSE]
    /\ listening = [i \in Accessors |-> FALSE]
    /\ lastAdjusted = NoCall
    /\ lastLookup = NoCall

\* the magnetic effect after useMagneticEffect() returned
MagInit ==
    /\ target \in {ELEMENT, NULL}
    /\ strength \in Strengths
    /\ rect \in Rects
    /\ magPhase = "setup"
    /\ magListeners = {}
    /\ isActive = FALSE
    /\ animationFrame = 0
    /\ nextFrame = 1
    /\ pendingFrames = {}
    /\ tween = NoTween
    /\ lastEvent = NoEvent
    /\ callbackLog = <<>>
    /\ strengthRef = strength

\* a page with the default magnetic effect on an element centred on (0,0)
MagRest ==
    /\ MagInit
    /\ target = ELEMENT
    /\ strength = 3
    /\ rect.left = -50

\* the scroll reveal after useScrollReveal() returned
RevInit ==
    /\ targets \in TargetsValues
    /\ stagger \in StaggerOptions
    /\ scrollTriggerConfig \in SUBSET TriggerKeys
    /\ revPhase = "setup"
    /\ scrollTrigger = NoTrigger
    /\ revealTween = NoReveal
    /\ isTriggered = FALSE
    /\ scrollPos = "before"
    /\ enters = 0

\* the landing page's reveal: an array of elements, stagger 0.2
RevRest ==
    /\ RevInit
    /\ targets = [kind |-> "array", n |-> MaxTargets]
    /\ stagger = [given |-> TRUE, value |-> 200]
    /\ scrollTriggerConfig = {}

\* the hero animation after useHeroAnimation() returned
HeroInit ==
    /\ title \in {ELEMENT, NULL}
    /\ subtitle \in {ELEMENT, NULL}
    /\ button \in {ELEMENT, NULL}
    /\ delay \in HeroDelays
    /\ heroPhase = "setup"
    /\ tl = NoTimeline
    /\ tlTime = 0
    /\ isPlaying = FALSE
    /\ isComplete = FALSE

\* the landing page's hero: three elements, the default delay
HeroRest ==
    /\ HeroInit
    /\ title = ELEMENT
    /\ subtitle = ELEMENT
    /\ button = ELEMENT
    /\ delay = 300

\* the effect composables at rest
FxRest == MagRest /\ RevRest /\ HeroRest

\* the registry of a build: any list of entries, no query made yet
RegInit ==
    /\ registry \in Registries
    /\ lastQuery = NoQuery

\* the registry as the repository ships it: no entry
RegRest ==
    /\ RegInit
    /\ registry = <<>>

\* the engine before the plugin has run
PlugInit ==
    /\ pluginStarted = FALSE
    /\ timeScale = 1
    /\ scrollTriggerEnabled = TRUE

\* the landing page before its setup has run
PageInit ==
    /\ pagePhase = "created"
    /\ tickPending = FALSE
    /\ bound = [e \in {"hero", "reveal"} |-> FALSE]

\* the application at rest
AppRest == RegRest /\ PlugInit /\ PageInit

\* a page in the browser, animations not reduced
Init == CtxInit /\ CfgInit /\ isClient /\ ~mediaQuery /\ FxRest /\ AppRest

\* contexts at rest, any platform
ConfigInit ==
    /\ CtxInit
    /\ options = [c \in Contexts |-> [onRevert |-> FALSE, setup |-> "none"]]
    /\ CfgInit
    /\ FxRest
    /\ AppRest

\* the scoped contexts of a page
Next ==
    \/ \E c \in Contexts : Mount(c)
    \/ \E c \in Contexts : Unmount(c)
    \/ \E c \in Contexts : ManualRevert(c)
    \/ \E c \in Contexts, a \in AddIds : Add(c, a)
    \/ \E c \in Contexts, ev \in HoverEvents : PointerEvent(c, ev)

Spec == Init /\ [][Next]_vars

\* the configuration table and its accessors
ConfigNext ==
    \/ \E i \in Accessors : UseMotionConfig(i)
    \/ MediaQueryChange
    \/ \E i \in Accessors, key \in DurationKeys :
          CallGetAdjustedDuration(i, key)
    \/ \E fn \in Lookups, key \in Keys : CallLookup(fn, key)

ConfigSpec == ConfigInit /\ [][ConfigNext]_vars

(* ---------------------------------------------------------------------- *)
(* Properties of the scoped context                                        *)
(* ---------------------------------------------------------------------- *)

\* what a caller or the page can observe of the contexts
Observable(s) ==
    [ctx |-> s.ctx, isReady |-> s.isReady, data |-> s.data,
     globalTimeline |-> s.globalTimeline, listeners |-> s.listeners,
     engineReverts |-> s.engineReverts, onRevertCalls |-> s.onRevertCalls,
     executed |-> s.executed, dropped |-> s.dropped]

\* the tweens a context can record: the setup's and those of add()
RecordedIds == {SetupTween} \cup AddIds

\* the recorded tweens of context c that are live
LiveOf(g, c) == {a \in RecordedIds : <<c, a>> \in g}

\* C1: in every reachable state and for every context, revert() called
\* twice in succession leaves the same handle, isReady, registered
\* animations and number of onRevert invocations as revert() called once.
RevertIdempotent ==
    \A c \in Contexts :
        Observable(revert(revert(S, c), c)) = Observable(revert(S, c))

\* a second revert() was made on a context whose first one cleaned it up
RevertIdempotentWitness ==
    \E c \in Contexts :
        /\ options[c].onRevert
        /\ options[c].setup = "tween"
        /\ phase[c] = "mounted"
        /\ engineReverts[c] = 1
        /\ onRevertCalls[c] = 1
        /\ lastCall[c] = "revert:noop"

\* C2: whatever mount, add, manual revert and unmount events occur, the
\* engine-level revert and the onRevert callback of a context run at most
\* once.
CleanupAtMostOnce ==
    \A c \in Contexts :
        /\ engineReverts[c] <= 1
        /\ onRevertCalls[c] <= 1

\* a context used, reverted by hand and then unmounted: one cleanup
CleanupAtMostOnceWitness ==
    \E c \in Contexts :
        /\ phase[c] = "unmounted"
        /\ executed[c] # {}
        /\ lastCall[c] = "revert:noop"
        /\ engineReverts[c] = 1

\* C3: once the owning component is unmounted the handle is null, isReady
\* is false and no tween registered through the context is live.
UnmountReverts ==
    \A c \in Contexts :
        phase[c] = "unmounted" =>
            /\ ctx[c] = NULL
            /\ ~isReady[c]
            /\ data[c] = {}
            /\ LiveOf(globalTimeline, c) = {}

\* unmounted with registrations and without any revert() by the caller
UnmountRevertsWitness ==
    \E c \in Contexts :
        /\ phase[c] = "unmounted"
        /\ options[c].setup = "tween"
        /\ executed[c] # {}
        /\ dropped[c] = {}
        /\ lastCall[c] = "revert:cleaned"

\* C4: once a context has been reverted, no step executes an add() callback
\* or registers a tween in it or makes one of its tweens live; an add()
\* only logs its warning and does not throw.
AddAfterRevertIsNoOp ==
    [][\A c \in Contexts :
          engineReverts[c] >= 1 =>
              /\ executed'[c] = executed[c]
              /\ data'[c] = {}
              /\ LiveOf(globalTimeline', c) = {}
              /\ lastCall'[c] \in {lastCall[c], "revert:noop", "add:warned"}
              /\ (dropped'[c] # dropped[c] => lastCall'[c] = "add:warned")]_vars

\* add() was called on a reverted context of a mounted component
AddAfterRevertWitness ==
    \E c \in Contexts :
        /\ phase[c] = "mounted"
        /\ engineReverts[c] = 1
        /\ lastCall[c] = "add:warned"
        /\ dropped[c] # {}

\* C5: after the first revert() nothing the context's setup or add()
\* registered is left: no listener, no live tween on its target, and
\* onRevert was invoked.
FirstRevertUndoesAll ==
    \A c \in Contexts :
        engineReverts[c] >= 1 =>
            /\ listeners[c] = {}
            /\ \A a \in RecordedIds \cup {HoverTween} :
                  <<c, a>> \notin globalTimeline
            /\ (options[c].onRevert => onRevertCalls[c] = 1)

\* C6: isReady is true exactly while the handle is non-null, which is
\* exactly from the mounted hook until the revert.
IsReadyIffOpen ==
    \A c \in Contexts :
        /\ isReady[c] <=> (ctx[c] # NULL)
        /\ isReady[c] <=> (phase[c] = "mounted" /\ engineReverts[c] = 0)

\* one context open and ready, another reverted while still mounted
IsReadyIffOpenWitness ==
    \E c, d \in Contexts :
        /\ isReady[c]
        /\ phase[d] = "mounted"
        /\ engineReverts[d] = 1
        /\ ~isReady[d]

\* the operations of a context
ContextOps ==
    {[op |-> o, a |-> 0] : o \in {"mount", "unmount", "revert"}}
        \cup {[op |-> "add", a |-> a] : a \in AddIds}

OpEnabled(s, c, o) ==
    CASE o.op = "mount" -> s.phase[c] = "setup"
      [] o.op = "unmount" -> s.phase[c] = "mounted"
      [] o.op = "revert" -> TRUE
      [] o.op = "add" -> Fresh(s, c, o.a)

Apply(s, c, o) ==
    CASE o.op = "mount" -> onMounted(s, c)
      [] o.op = "unmount" -> onBeforeUnmount(s, c)
      [] o.op = "revert" -> revert(s, c)
      [] o.op = "add" -> add(s, c, o.a)

\* what belongs to context c in state s
Own(s, c) ==
    [phase |-> s.phase[c], ctx |-> s.ctx[c], isReady |-> s.isReady[c],
     data |-> s.data[c], live |-> {p \in s.globalTimeline : p[1] = c},
     listeners |-> s.listeners[c], engineReverts |-> s.engineReverts[c],
     onRevertCalls |-> s.onRevertCalls[c], executed |-> s.executed[c],
     dropped |-> s.dropped[c]]

\* C7: an open, add or revert on one context leaves every other context's
\* handle, isReady and registered tweens as they were, and two operations
\* on different contexts reach the same state in both orders.
ContextsIndependent ==
    \A c \in Contexts : \A d \in Contexts \ {c} :
        \A o \in {x \in ContextOps : OpEnabled(S, c, x)} :
            /\ Own(Apply(S, c, o), d) = Own(S, d)
            /\ \A q \in {x \in ContextOps : OpEnabled(S, d, x)} :
                  Apply(Apply(S, c, o), d, q) = Apply(Apply(S, d, q), c, o)

\* one context reverted while another keeps its live tweens
ContextsIndependentWitness ==
    \E c \in Contexts : \E d \in Contexts \ {c} :
        /\ engineReverts[c] = 1
        /\ executed[c] # {}
        /\ ctx[d] # NULL
        /\ data[d] # {}
        /\ LiveOf(globalTimeline, d) = data[d]

(* ---------------------------------------------------------------------- *)
(* Properties of the configuration table and its accessor                  *)
(* ---------------------------------------------------------------------- *)

\* C8: the result of getAdjustedDuration(tier) is a tenth of
\* getDuration(tier) when the accessor's flag was true at the call and is
\* getDuration(tier) when it was false.
AdjustedDurationFollowsFlag ==
    lastAdjusted.made =>
        IF lastAdjusted.flag
        THEN 10 * lastAdjusted.result = getDuration(lastAdjusted.key).num
        ELSE lastAdjusted.result = getDuration(lastAdjusted.key).num

\* a reduced duration returned after the preference was switched on
AdjustedDurationWitness ==
    /\ lastAdjusted.made
    /\ lastAdjusted.flag
    /\ lastAdjusted.key = "fast"
    /\ lastAdjusted.result = 20

\* the fixed enumeration of each lookup
Enumeration(fn) ==
    CASE fn = "getDuration" ->
            {"instant", "fast", "normal", "slow", "verySlow"}
      [] fn = "getEasing" ->
            {"linear", "smooth", "smoothIn", "smoothInOut", "elastic",
             "bounce", "expo", "back"}
      [] fn = "getDelay" ->
            {"none", "micro", "tiny", "small", "medium", "large"}

\* C9: getDuration, getEasing and getDelay fail with an error on a tier
\* name outside their enumeration and return no value for it.
UnknownTierFails ==
    (lastLookup.made /\ lastLookup.key \notin Enumeration(lastLookup.fn))
        => lastLookup.threw

\* the value the literal gives a tier
Documented(fn, key) ==
    CASE fn = "getDuration" -> Num(MotionConfigLiteral.durations[key])
      [] fn = "getEasing" -> Str(MotionConfigLiteral.easings[key])
      [] fn = "getDelay" -> Num(MotionConfigLiteral.delays[key])

\* C10: in every reachable state each lookup returns, for every tier of
\* its enumeration, the constant the table's literal gives it; so did the
\* last call made, and the table is the literal still.
KnownTiersConstant ==
    /\ motionConfig = MotionConfigLiteral
    /\ \A fn \in Lookups : \A key \in Enumeration(fn) :
          Lookup(fn, key) = Documented(fn, key)
    /\ (lastLookup.made /\ lastLookup.key \in Enumeration(lastLookup.fn))
          => /\ ~lastLookup.threw
             /\ lastLookup.result = Documented(lastLookup.fn, lastLookup.key)

\* a delay looked up after the platform preference changed and an accessor
\* answered a call
KnownTiersConstantWitness ==
    /\ lastLookup.made
    /\ lastLookup.fn = "getDelay"
    /\ lastLookup.key = "large"
    /\ lastLookup.result = Num(300)
    /\ lastAdjusted.made
    /\ mediaQuery

\* C11: on the client every accessor's reduced-motion flag equals the
\* platform's current preference, at its creation and after every change of
\* the preference, so all callers observe one value; off the client, where
\* there is no platform signal, the flag is false.
FlagTracksPlatform ==
    \A i \in Accessors :
        created[i] =>
            /\ prefersReducedMotion[i] = (isClient /\ mediaQuery)
            /\ \A j \in Accessors :
                  created[j] =>
                      prefersReducedMotion[j] = prefersReducedMotion[i]

\* an accessor answered a call with its flag off and has it on now, as has
\* a second accessor: the preference changed after the accessor was built
FlagTracksPlatformWitness ==
    /\ lastAdjusted.made
    /\ ~lastAdjusted.flag
    /\ prefersReducedMotion[lastAdjusted.accessor]
    /\ mediaQuery
    /\ \E j \in Accessors \ {lastAdjusted.accessor} :
          created[j] /\ prefersReducedMotion[j]

(* ---------------------------------------------------------------------- *)
(* useMagneticEffect on its own                                            *)
(* ---------------------------------------------------------------------- *)

\* contexts and accessors at rest
RestOfPage ==
    /\ CtxInit
    /\ options = [c \in Contexts |-> [onRevert |-> FALSE, setup |-> "none"]]
    /\ CfgInit
    /\ isClient
    /\ ~mediaQuery

MagneticInit == MagInit /\ RevRest /\ HeroRest /\ RestOfPage /\ AppRest

MagneticNext ==
    \/ MagMount
    \/ MagUnmount
    \/ \E p \in Pointers : MouseMove(p)
    \/ MouseLeave
    \/ \E f \in pendingFrames : AnimationFrame(f)
    \/ \E s \in Strengths : SetStrength(s)

MagneticSpec == MagneticInit /\ [][MagneticNext]_vars

\* the centre of a rectangle
Center(r) ==
    [x |-> (2 * r.left + r.width) \div 2, y |-> (2 * r.top + r.height) \div 2]

\* the pointer of event e is within the radius of the element's centre
Within(e) ==
    LET dx == e.x - Center(rect).x
        dy == e.y - Center(rect).y
    IN dx * dx + dy * dy <= radius * radius

\* the offset is that of the pointer of event e
OffsetOf(o, e) ==
    /\ o.x = (e.x - Center(rect).x) * strength
    /\ o.y = (e.y - Center(rect).y) * strength

\* C13: a pointer within the radius is animated to (pointer - centre) *
\* strength on each axis, (100,0) around (0,0) at strength 0.3 to (30,0);
\* a pointer beyond the radius is animated to (0,0).
MagneticOffset ==
    /\ [](/\ \A f \in pendingFrames : Within(f.e) /\ OffsetOf(f, f.e)
          /\ (tween.by = "frame" => Within(tween.e) /\ OffsetOf(tween, tween.e))
          /\ (tween.by = "leave" =>
                /\ tween.x = 0 /\ tween.y = 0
                /\ (tween.e.type = "mousemove" => ~Within(tween.e)))
          /\ ((rect.left = -50 /\ strength = 3 /\ tween.by = "frame"
                  /\ tween.e = MouseMoveEvent(<<100, 0>>))
                => (tween.x = 300 /\ tween.y = 0)))
    /\ [][\A p \in Pointers :
            MouseMove(p) =>
                IF Within(MouseMoveEvent(p))
                THEN \E f \in pendingFrames' :
                        /\ f.id = animationFrame'
                        /\ f.e = MouseMoveEvent(p)
                ELSE /\ tween'.by = "leave"
                     /\ tween'.e = MouseMoveEvent(p)]_vars

\* the pointer at (100,0), the centre at (0,0), strength 0.3: the frame ran
\* and animates the element to (30,0)
MagneticOffsetWitness ==
    /\ rect.left = -50
    /\ strength = 3
    /\ tween.by = "frame"
    /\ tween.e = MouseMoveEvent(<<100, 0>>)
    /\ tween.x = 300
    /\ tween.y = 0

\* the last pointer event left the interaction region
LeftRegion ==
    \/ lastEvent.type = "mouseleave"
    \/ lastEvent.type = "mousemove" /\ ~Within(lastEvent)

\* C14: once the pointer has left (mouseleave, or a move beyond the radius)
\* and has not come back, the element's last animation is the one to (0,0).
LeaveEndsAtZero ==
    LeftRegion => (tween.x = 0 /\ tween.y = 0)

StrengthZeroToggles ==
    /\ (magPhase = "mounted" /\ target # NULL)
          => (isActive <=> (lastEvent.type = "mousemove" /\ ~LeftRegion))
    /\ strength = 0 =>
          /\ tween.x = 0 /\ tween.y = 0
          /\ \A f \in pendingFrames : f.x = 0 /\ f.y = 0

\* strength 0, the pointer off the centre and within the radius: active
StrengthZeroTogglesWitness ==
    /\ strength = 0
    /\ isActive
    /\ tween.by = "leave"
    /\ \E f \in pendingFrames : f.e = MouseMoveEvent(<<100, 0>>)

(* ---------------------------------------------------------------------- *)
(* useScrollReveal and useHeroAnimation on their own                       *)
(* ---------------------------------------------------------------------- *)

RevealInit == RevInit /\ MagRest /\ HeroRest /\ RestOfPage /\ AppRest

RevealNext ==
    \/ RevMount
    \/ RevUnmount
    \/ ScrollForward
    \/ ScrollBack

RevealSpec == RevealInit /\ [][RevealNext]_vars

HeroSpecInit == HeroInit /\ MagRest /\ RevRest /\ RestOfPage /\ AppRest

HeroNext ==
    \/ HeroMount
    \/ HeroTick
    \/ HeroUnmount

HeroSpec == HeroSpecInit /\ [][HeroNext]_vars

\* C17: isTriggered is false until the trigger's start is first crossed,
\* true from that crossing on, whatever the options hold (the caller's
\* scrollTrigger configuration included).
TriggeredOnFirstCrossing ==
    /\ enters = 0 => ~isTriggered
    /\ enters >= 1 => isTriggered

\* C18 as stated: once triggered every target is animated, target i+1
\* starting exactly the stagger after target i, from one trigger placed
\* on the first target.
StaggerFromFirstTarget ==
    revealTween.starts # <<>> =>
        /\ Len(revealTween.starts) = Elements(targets)
        /\ \A i \in 1..(Len(revealTween.starts) - 1) :
              revealTween.starts[i + 1] - revealTween.starts[i]
                  = IF stagger.given THEN stagger.value ELSE 200
        /\ scrollTrigger.live
        /\ scrollTrigger.trigger = "first element"

\* C18: once triggered every target is animated, target i+1 starting
\* exactly the stagger after target i, from one trigger, which is placed
\* on the first target unless the caller's scrollTrigger configuration
\* names another trigger.
StaggerFromOneTrigger ==
    revealTween.starts # <<>> =>
        /\ Len(revealTween.starts) = Elements(targets)
        /\ \A i \in 1..(Len(revealTween.starts) - 1) :
              revealTween.starts[i + 1] - revealTween.starts[i]
                  = IF stagger.given THEN stagger.value ELSE 200
        /\ scrollTrigger.live
        /\ scrollTrigger.trigger =
              IF "trigger" \in scrollTriggerConfig
              THEN CallerVars.trigger ELSE "first element"

StaggerFromOneTriggerWitness ==
    /\ targets = [kind |-> "array", n |-> MaxTargets]
    /\ stagger = [given |-> TRUE, value |-> 100]
    /\ revealTween.starts = [i \in 1..MaxTargets |-> (i - 1) * 100]
    /\ scrollTrigger.trigger = "first element"

\* C20: the hero timeline holds three segments, title, subtitle and
\* button in that order; the subtitle starts 0.6 s before the end of the
\* sequence built so far and the button 0.4 s before; each segment starts
\* after its predecessor started and strictly before it finishes.
HeroSegmentsOverlap ==
    tl # NoTimeline =>
        /\ Len(tl) = 3
        /\ tl[1].name = "title" /\ tl[1].target = title
        /\ tl[2].name = "subtitle" /\ tl[2].target = subtitle
        /\ tl[3].name = "button" /\ tl[3].target = button
        /\ tl[2].start = TimelineEnd(SubSeq(tl, 1, 1)) - 600
        /\ tl[3].start = TimelineEnd(SubSeq(tl, 1, 2)) - 400
        /\ \A i \in 1..2 :
              /\ tl[i + 1].start > tl[i].start
              /\ tl[i + 1].start < tl[i].start + tl[i].duration

HeroSegmentsOverlapWitness ==
    /\ tl # NoTimeline
    /\ delay = 500
    /\ title = ELEMENT /\ subtitle = ELEMENT /\ button = ELEMENT
    /\ tlTime = 1100
    /\ isPlaying

(* ---------------------------------------------------------------------- *)
(* The three effect composables on one page                                *)
(* ---------------------------------------------------------------------- *)

\* every accessor the composables asked for exists and holds the
\* platform's preference
AccessorsReady ==
    /\ CtxInit
    /\ options = [c \in Contexts |-> [onRevert |-> FALSE, setup |-> "none"]]
    /\ motionConfig = MotionConfigLiteral
    /\ isClient = TRUE
    /\ mediaQuery \in BOOLEAN
    /\ created = [i \in Accessors |-> TRUE]
    /\ prefersReducedMotion = [i \in Accessors |-> mediaQuery]
    /\ listening = [i \in Accessors |-> TRUE]
    /\ lastAdjusted = NoCall
    /\ lastLookup = NoCall

EffectsInit ==
    /\ MagInit
    /\ strength = 3
    /\ rect.left = -50
    /\ RevInit
    /\ stagger = [given |-> FALSE, value |-> 0]
    /\ scrollTriggerConfig = {}
    /\ HeroInit
    /\ delay = 300
    /\ AccessorsReady
    /\ AppRest

EffectsNext ==
    \/ MagMount
    \/ MouseLeave
    \/ MagUnmount
    \/ RevMount
    \/ RevUnmount
    \/ HeroMount
    \/ HeroTick
    \/ HeroUnmount

EffectsSpec == EffectsInit /\ [][EffectsNext]_vars

\* C12: while the reduced-motion flag is true, every animation an effect
\* composable registered runs for the adjusted duration of its tier.
RespectsReducedMotion ==
    (\E i \in Accessors : prefersReducedMotion[i]) =>
        /\ tween.by # "none" =>
              tween.duration = getAdjustedDuration(TRUE, "normal")
        /\ revealTween.live =>
              revealTween.duration = getAdjustedDuration(TRUE, "slow")
        /\ tl # NoTimeline =>
              /\ tl[1].duration = getAdjustedDuration(TRUE, "verySlow")
              /\ tl[2].duration = getAdjustedDuration(TRUE, "slow")
              /\ tl[3].duration = getAdjustedDuration(TRUE, "normal")

\* C19: a composable mounted on a missing target registers nothing
\* (no listener, no tween, no trigger, no timeline) and its state flags
\* keep their initial values.
MissingTargetRegistersNothing ==
    /\ (target = NULL /\ magPhase # "setup") =>
          /\ magListeners = {}
          /\ tween = NoTween
          /\ pendingFrames = {}
          /\ ~isActive
    /\ (NothingToAnimate(targets) /\ revPhase # "setup") =>
          /\ scrollTrigger = NoTrigger
          /\ revealTween = NoReveal
          /\ ~isTriggered
    /\ ((title = NULL \/ subtitle = NULL \/ button = NULL)
            /\ heroPhase # "setup") =>
          /\ tl = NoTimeline
          /\ ~isPlaying
          /\ ~isComplete

\* C21: isPlaying and isComplete start false; isPlaying is true exactly
\* between the timeline's start and its completion; isComplete is true
\* only from the completion on; the two are never true together, and
\* once the context is reverted isPlaying is not left true.
HeroFlagsFollowTimeline ==
    /\ heroPhase = "setup" => ~isPlaying /\ ~isComplete
    /\ ~(isPlaying /\ isComplete)
    /\ heroPhase = "mounted" =>
          /\ isPlaying = (0 < tlTime /\ tlTime < TimelineEnd(tl))
          /\ isComplete = (tlTime = TimelineEnd(tl))
    /\ heroPhase = "unmounted" => ~isPlaying

(* ---------------------------------------------------------------------- *)
(* useComponentRegistry on its own                                         *)
(* ---------------------------------------------------------------------- *)

RegistryInit == RegInit /\ PlugInit /\ PageInit /\ FxRest /\ RestOfPage

RegistryNext ==
    \/ CallGetAllComponents
    \/ CallGetByCategory
    \/ CallGetById
    \/ CallGetByTags
    \/ CallGetByComplexity
    \/ CallGetAllCategories
    \/ CallSearch

RegistrySpec == RegistryInit /\ [][RegistryNext]_vars

\* the positions of the registry kept by a result, in registry order,
\* when the result is the registry filtered by the set keep of positions
Kept(keep) ==
    LET RECURSIVE Take(_)
        Take(n) ==
            IF n = 0 THEN <<>>
            ELSE IF n \in keep THEN Append(Take(n - 1), registry[n])
                 ELSE Take(n - 1)
    IN Take(Len(registry))

\* two characters equal up to case
SameLetter(x, y) ==
    \/ x = y
    \/ {x, y} \in {{"a", "A"}, {"b", "B"}}

\* text contains query as a substring, compared case-insensitively
Contains(text, query) ==
    \E i \in 0..(Len(text) - Len(query)) :
        \A k \in 1..Len(query) : SameLetter(text[i + k], query[k])

\* the name, the description or a tag of the entry contains the query
Matches(c, query) ==
    \/ Contains(c.name, query)
    \/ Contains(c.description, query)
    \/ \E i \in DOMAIN c.tags : Contains(c.tags[i], query)

\* C22: search(query) returns exactly the entries whose name, description
\* or a tag contains the query case-insensitively, in registry order, and
\* the empty collection when none does.
SearchMatches ==
    lastQuery.op = "search" =>
        lastQuery.result =
            Kept({n \in DOMAIN registry : Matches(registry[n], lastQuery.arg)})

SearchMatchesWitness ==
    /\ lastQuery.op = "search"
    /\ lastQuery.arg = <<"A", "B">>
    /\ Len(registry) = MaxEntries
    /\ Len(lastQuery.result) = 1
    /\ lastQuery.result[1] = registry[2]

\* the sum of the counts of the first n records
SumCounts(records) ==
    LET RECURSIVE Sum(_)
        Sum(n) == IF n = 0 THEN 0 ELSE Sum(n - 1) + records[n].count
    IN Sum(Len(records))

\* C23: getAllCategories() returns one record for each of the seven
\* categories, each once, with the count of entries getByCategory returns
\* for it; the counts sum to the number of registry entries.
CategoriesCount ==
    lastQuery.op = "getAllCategories" =>
        LET records == lastQuery.result
        IN /\ Len(records) = 7
           /\ {records[i].id : i \in DOMAIN records} =
                 {"buttons", "cards", "sections", "forms", "text",
                  "navigation", "overlays"}
           /\ \A i \in DOMAIN records :
                 records[i].count = Len(getByCategory(records[i].id))
           /\ SumCounts(records) = Len(registry)

CategoriesCountWitness ==
    /\ lastQuery.op = "getAllCategories"
    /\ Len(registry) = MaxEntries
    /\ lastQuery.result[1].count >= 1
    /\ lastQuery.result[5].count >= 1

\* the tags of entry c that are among the given tags
SharedTags(c, tags) ==
    {c.tags[i] : i \in DOMAIN c.tags} \cap {tags[i] : i \in DOMAIN tags}

\* what the last query must have returned
QueryAnswer ==
    LET q == lastQuery
        Ids == {n \in DOMAIN registry : registry[n].id = q.arg}
    IN CASE q.op = "getAllComponents" -> q.result = registry
         [] q.op = "getByCategory" ->
                q.result =
                    Kept({n \in DOMAIN registry :
                            registry[n].category = q.arg})
         [] q.op = "getById" ->
                IF Ids = {} THEN ~q.result.found
                ELSE /\ q.result.found
                     /\ \E n \in Ids :
                           /\ q.result.entry = registry[n]
                           /\ \A m \in Ids : n <= m
         [] q.op = "getByTags" ->
                q.result =
                    Kept({n \in DOMAIN registry :
                            SharedTags(registry[n], q.arg) # {}})
         [] q.op = "getByComplexity" ->
                q.result =
                    Kept({n \in DOMAIN registry :
                            registry[n].complexity = q.arg})
         [] q.op = "search" ->
                q.result \in Registries \cup {Kept(DOMAIN registry)}
         [] q.op = "getAllCategories" -> Len(q.result) = Len(CategoryIds)
         [] OTHER -> q = NoQuery

\* C24: no query changes the entry list, each filter returns exactly the
\* entries satisfying its predicate (getByTags: sharing at least one of
\* the given tags), and a query with no match returns an empty collection
\* (getById: no entry).
QueriesReadOnly ==
    /\ [](QueryAnswer)
    /\ [][registry' = registry]_vars

QueriesReadOnlyWitness ==
    /\ lastQuery.op = "getByTags"
    /\ lastQuery.arg = << <<"c">>, <<"b">> >>
    /\ Len(registry) = MaxEntries
    /\ Len(lastQuery.result) >= 2

(* ---------------------------------------------------------------------- *)
(* The plugin with the effects of a page                                   *)
(* ---------------------------------------------------------------------- *)

PluginInit ==
    /\ CtxInit
    /\ options = [c \in Contexts |-> [onRevert |-> FALSE, setup |-> "tween"]]
    /\ CfgInit
    /\ isClient
    /\ FxRest
    /\ RegRest
    /\ PlugInit
    /\ PageInit

\* the application mounts and unmounts components once its plugins ran
PluginNext ==
    \/ PluginStart
    \/ Navigate
    \/ \E c \in Contexts : pluginStarted /\ Mount(c)
    \/ \E c \in Contexts : Unmount(c)
    \/ pluginStarted /\ MagMount
    \/ MouseLeave
    \/ MagUnmount
    \/ pluginStarted /\ RevMount
    \/ ScrollForward
    \/ ScrollBack
    \/ RevUnmount
    \/ pluginStarted /\ HeroMount
    \/ HeroTick
    \/ HeroUnmount

PluginSpec == PluginInit /\ [][PluginNext]_vars

\* no tween, timeline or scroll trigger is live
NothingLive ==
    /\ globalTimeline = {}
    /\ tween = NoTween
    /\ ~revealTween.live
    /\ ~scrollTrigger.live
    /\ tl = NoTimeline

CallbacksAlternate ==
    /\ callbackLog \in
          {<<>>, <<"onEnter">>, <<"onEnter", "onLeave">>,
           <<"onLeave", "onEnter">>}
    /\ magPhase = "mounted" =>
          (isActive <=>
              (callbackLog # <<>>
                  /\ callbackLog[Len(callbackLog)] = "onEnter"))

\* C28: a pointer move within the radius requests the offset
\* (pointer - centre) * the current value of the returned strength ref.
StrengthRefApplies ==
    [][\A p \in Pointers :
          (MouseMove(p) /\ Within(MouseMoveEvent(p))) =>
              \E f \in pendingFrames' :
                  /\ f.id = animationFrame'
                  /\ f.x = (p[1] - Center(rect).x) * strengthRef
                  /\ f.y = (p[2] - Center(rect).y) * strengthRef]_vars

(* ---------------------------------------------------------------------- *)
(* The landing page with its two effects                                   *)
(* ---------------------------------------------------------------------- *)

LandingInit ==
    /\ HeroInit
    /\ delay = 300
    /\ RevInit
    /\ targets.kind = "array"
    /\ stagger = [given |-> TRUE, value |-> 200]
    /\ scrollTriggerConfig = {}
    /\ MagRest
    /\ RestOfPage
    /\ AppRest

LandingNext ==
    \/ PageSetup
    \/ PageMounted
    \/ PageNextTick
    \/ HeroTick
    \/ PageUnmount

LandingSpec == LandingInit /\ [][LandingNext]_vars

\* C29: on the landing page the hero's and the reveal's contexts are both
\* initialised once the page is mounted (and its nextTick callback ran)
\* and both reverted once the page is unmounted.
LandingContextsLive ==
    /\ (pagePhase = "mounted" /\ ~tickPending) =>
          heroPhase = "mounted" /\ revPhase = "mounted"
    /\ (pagePhase = "unmounted" /\ ~tickPending) =>
          heroPhase = "unmounted" /\ revPhase = "unmounted"

\* C30: an add() on a context that is not open only warns: its callback
\* is not executed, nothing is registered, and the callback is not run
\* when the context is opened later; add() executes and registers only
\* while the context is open.
AddBeforeOpenIsDropped ==
    /\ [](\A c \in Contexts :
            /\ dropped[c] \cap executed[c] = {}
            /\ dropped[c] \cap data[c] = {}
            /\ \A a \in dropped[c] : <<c, a>> \notin globalTimeline)
    /\ [][\A c \in Contexts :
            /\ executed'[c] # executed[c] =>
                  /\ ctx[c] = CONTEXT
                  /\ lastCall'[c] = "add:registered"
            /\ dropped'[c] # dropped[c] =>
                  /\ ctx[c] = NULL
                  /\ lastCall'[c] = "add:warned"
                  /\ executed'[c] = executed[c]
                  /\ data'[c] = data[c]
                  /\ globalTimeline' = globalTimeline]_vars

\* the add() came before the mounted hook; the context is open now
AddBeforeOpenWitness ==
    \E c \in Contexts :
        /\ phase[c] = "mounted"
        /\ ctx[c] = CONTEXT
        /\ engineReverts[c] = 0
        /\ dropped[c] # {}
        /\ data[c] # {}

====
